---- MODULE Spec2Model ----
(***************************************************************************)
(* Model of expand_ground_truth_to_15.py: a script that loads a ground     *)
(* truth registry from one JSON file, appends four literal test cases,     *)
(* overwrites the dataset metadata with literal values and dumps the       *)
(* result to a second JSON file.                                           *)
(*                                                                         *)
(* Floats are kept as integer numbers of ten-thousandths (0.92 is 9200).   *)
(* Python's None is the empty sequence where the other values are          *)
(* numbers (expected_confidence is <<>> or <<7500>>), and the string       *)
(* "None" where the other values are strings (pr_state).                   *)
(***************************************************************************)
EXTENDS Integers, Sequences, FiniteSets, TLC

\* Longest test_cases list of a starting registry.
MaxOld == 2

\* How many times the script is executed after its first run.
MaxRuns == 2

InputPath == "test_data/omnara_ground_truth_expanded.json"

OutputPath_SameAsInput == "test_data/omnara_ground_truth_expanded.json"

OutputPath == "test_data/omnara_ground_truth_15cases.json"

\* A path that holds no file, and the name `data` before it is assigned.
NoFile == [missing |-> TRUE]

Unbound == [unbound |-> TRUE]

----------------------------------------------------------------------------
\* The four literal records of new_cases.

Case111 ==
  [ issue_number |-> 111,
    title |-> "[BUG] CONTRIBUTING guide link in readme broken",
    issue_url |-> "https://github.com/omnara-ai/omnara/issues/111",
    expected_links |-> [ fixed_by_commits |-> <<>>,
                         associated_prs |-> <<112>>,
                         associated_issues |-> <<>> ],
    linking_patterns |-> <<"explicit">>,
    primary_evidence |-> [ pr_body_contains |-> "Address #111",
                           reference_type |-> "address",
                           explicit |-> TRUE,
                           issue_closed_at |-> "2025-08-14T00:00:00Z",
                           pr_merged_at |-> "2025-08-14T00:00:00Z" ],
    link_quality |-> "high",
    difficulty |-> "easy",
    notes |-> "PR #112 explicitly states 'Address #111'. Added CONTRIBUTING.md file to fix broken README link.",
    expected_confidence |-> <<7500>>,
    should_detect |-> TRUE,
    github_verification |-> [ issue_state |-> "closed",
                              pr_state |-> "merged",
                              verified_manually |-> TRUE,
                              verified_date |-> "2025-11-02" ] ]

Case62 ==
  [ issue_number |-> 62,
    title |-> "[FEATURE] Other modes of Claude Code",
    issue_url |-> "https://github.com/omnara-ai/omnara/issues/62",
    expected_links |-> [ fixed_by_commits |-> <<>>,
                         associated_prs |-> <<133>>,
                         associated_issues |-> <<>> ],
    linking_patterns |-> <<"explicit">>,
    primary_evidence |-> [ pr_mentioned_in |-> "ksarangmath mentioned this pull request Aug 17, 2025 [FEATURE] Other modes of Claude Code #62",
                           reference_type |-> "mentioned",
                           explicit |-> TRUE,
                           issue_closed_at |-> "2025-08-17T00:00:00Z",
                           pr_merged_at |-> "2025-08-17T00:00:00Z" ],
    link_quality |-> "high",
    difficulty |-> "easy",
    notes |-> "PR #133 mentioned Issue #62. Implemented --permission-mode and --dangerously-skip-permissions flags for Claude operational modes.",
    expected_confidence |-> <<7500>>,
    should_detect |-> TRUE,
    github_verification |-> [ issue_state |-> "closed",
                              pr_state |-> "merged",
                              verified_manually |-> TRUE,
                              verified_date |-> "2025-11-02" ] ]

Case164 ==
  [ issue_number |-> 164,
    title |-> "[FEATURE] codex cli integration",
    issue_url |-> "https://github.com/omnara-ai/omnara/issues/164",
    expected_links |-> [ fixed_by_commits |-> <<>>,
                         associated_prs |-> <<>>,
                         associated_issues |-> <<>> ],
    linking_patterns |-> <<"temporal">>,
    primary_evidence |-> [ temporal_correlation |-> TRUE,
                           note |-> "Database shows 6 PRs via temporal correlation, but no explicit references found on GitHub. Complex feature implemented incrementally.",
                           issue_closed_at |-> "2025-09-03T00:00:00Z" ],
    link_quality |-> "medium",
    difficulty |-> "hard",
    notes |-> "Complex multi-PR feature. Database shows 6 temporal PR matches. Feature request for Codex CLI integration implemented incrementally. Test case for multi-PR scenarios.",
    expected_confidence |-> <<6500>>,
    should_detect |-> TRUE,
    github_verification |-> [ issue_state |-> "closed",
                              pr_state |-> "None",
                              verified_manually |-> TRUE,
                              verified_date |-> "2025-11-02",
                              note |-> "No explicit PRs mentioned on issue page, relying on temporal correlation" ] ]

Case206 ==
  [ issue_number |-> 206,
    title |-> "[Proposal] Rename Omnara",
    issue_url |-> "https://github.com/omnara-ai/omnara/issues/206",
    expected_links |-> [ fixed_by_commits |-> <<>>,
                         associated_prs |-> <<>>,
                         associated_issues |-> <<>> ],
    linking_patterns |-> <<"none">>,
    primary_evidence |-> [ issue_state |-> "closed",
                           close_reason |-> "completed",
                           proposal_rejected |-> TRUE,
                           note |-> "Proposal rejected due to existing .com domain ownership" ],
    link_quality |-> "n/a",
    difficulty |-> "easy",
    notes |-> "True negative - proposal rejected. No PRs created. Closed by original poster after maintainer response. Tests rejection of non-actionable proposals.",
    expected_confidence |-> <<>>,
    should_detect |-> FALSE,
    github_verification |-> [ issue_state |-> "closed",
                              pr_state |-> "None",
                              verified_manually |-> TRUE,
                              verified_date |-> "2025-11-02" ] ]

\* new_cases where the true negative, issue 206, was given a link_quality
\* as the three positive cases are.
new_cases_Mislabelled ==
  << Case111, Case62, Case164, [Case206 EXCEPT !.link_quality = "low"] >>

\* new_cases where the confidence of issue 164 is written as a percentage
\* (65) instead of a fraction (0.65).
new_cases_BadConfidence ==
  << Case111, Case62, [Case164 EXCEPT !.expected_confidence = <<650000>>],
     Case206 >>

new_cases == << Case111, Case62, Case164, Case206 >>

----------------------------------------------------------------------------
\* The literal metadata the script assigns.

LiteralTotalCases == 15

LiteralPatternDistribution ==
  [ explicit |-> 7, temporal |-> 4, true_negative |-> 3, internal_fix |-> 1 ]

LiteralValidationMetrics_Truncated ==
  [ expected_true_positives |-> 11,
    expected_true_negatives |-> 3,
    expected_false_negatives |-> 1,
    expected_false_positives |-> 0,
    target_precision |-> 10000,
    target_recall |-> 9100,
    target_f1 |-> 9500 ]

LiteralValidationMetrics ==
  [ expected_true_positives |-> 11,
    expected_true_negatives |-> 3,
    expected_false_negatives |-> 1,
    expected_false_positives |-> 0,
    target_precision |-> 10000,
    target_recall |-> 9200,
    target_f1 |-> 9600 ]

LiteralNotes ==
  "Expanded to 15 cases for stronger statistical confidence. Added 2 explicit references (#111, #62), 1 complex temporal case (#164), and 1 true negative (#206). Validates both simple and complex linking scenarios."

----------------------------------------------------------------------------
\* list.extend: the items go after the existing elements, in their order.

Extend_Prepend(list, items) == items \o list

Extend(list, items) == list \o items

----------------------------------------------------------------------------
\* Starting registries: the content of the input file before the script runs.

OldCase(n, patterns, prs, quality, confidence, detect) ==
  [ issue_number |-> n,
    expected_links |-> [ fixed_by_commits |-> <<>>,
                         associated_prs |-> prs,
                         associated_issues |-> <<>> ],
    linking_patterns |-> patterns,
    link_quality |-> quality,
    expected_confidence |-> confidence,
    should_detect |-> detect ]

OldPool ==
  { OldCase(53, <<"explicit", "temporal">>, <<54>>, "high", <<8000>>, TRUE),
    OldCase(188, <<"temporal">>, <<>>, "low", <<5000>>, TRUE),
    OldCase(219, <<"none">>, <<>>, "n/a", <<>>, FALSE),
    OldCase(111, <<"explicit">>, <<112>>, "high", <<7500>>, TRUE) }

SeqsUpTo(S, n) == UNION { [1..k -> S] : k \in 0..n }

HasTag(c, t) == \E i \in 1..Len(c.linking_patterns) : c.linking_patterns[i] = t

TagsOf(cases) ==
  UNION { { cases[i].linking_patterns[j] : j \in 1..Len(cases[i].linking_patterns) }
          : i \in 1..Len(cases) }

CountTag(cases, t) == Cardinality({ i \in 1..Len(cases) : HasTag(cases[i], t) })

CountDetect(cases, b) == Cardinality({ i \in 1..Len(cases) : cases[i].should_detect = b })

StartRegistry(cases, total) ==
  [ test_cases |-> cases,
    total_cases |-> total,
    pattern_distribution |-> [ t \in TagsOf(cases) |-> CountTag(cases, t) ],
    validation_metrics |-> [ expected_true_positives |-> CountDetect(cases, TRUE),
                             expected_true_negatives |-> CountDetect(cases, FALSE) ],
    notes |-> "" ]

StartRegistries ==
  { StartRegistry(cases, total) :
      cases \in SeqsUpTo(OldPool, MaxOld), total \in {0, 11} }

----------------------------------------------------------------------------
VARIABLES files, data, pc, error, stdout, runs

vars == << files, data, pc, error, stdout, runs >>

\* round(n/d), halves up, for n >= 0 and d > 0.
RoundDiv(n, d) == (2 * n + d) \div (2 * d)

Init ==
  /\ \E inp \in StartRegistries \cup {NoFile} :
       \E out \in {NoFile, StartRegistry(<<>>, 0)} :
         files = (InputPath :> inp) @@ (OutputPath :> out)
  /\ data = Unbound
  /\ pc = "read"
  /\ error = "none"
  /\ stdout = <<>>
  /\ runs = 0

\* with open(<input>, "r") as f: data = json.load(f)
ReadInput ==
  /\ pc = "read"
  /\ files[InputPath] # NoFile
  /\ data' = files[InputPath]
  /\ pc' = "extend"
  /\ UNCHANGED << files, error, stdout, runs >>

\* open() of a path that holds no file raises, and the script ends there.
ReadInputFails ==
  /\ pc = "read"
  /\ files[InputPath] = NoFile
  /\ error' = "FileNotFoundError"
  /\ pc' = "failed"
  /\ UNCHANGED << files, data, stdout, runs >>

\* data["test_cases"].extend(new_cases)
ExtendTestCases ==
  /\ pc = "extend"
  /\ data' = [data EXCEPT !.test_cases = Extend(@, new_cases)]
  /\ pc' = "total"
  /\ UNCHANGED << files, error, stdout, runs >>

\* data["total_cases"] = 15
SetTotalCases ==
  /\ pc = "total"
  /\ data' = [data EXCEPT !.total_cases = LiteralTotalCases]
  /\ pc' = "dist"
  /\ UNCHANGED << files, error, stdout, runs >>

\* data["pattern_distribution"] = {...}
SetPatternDistribution ==
  /\ pc = "dist"
  /\ data' = [data EXCEPT !.pattern_distribution = LiteralPatternDistribution]
  /\ pc' = "metrics"
  /\ UNCHANGED << files, error, stdout, runs >>

\* data["validation_metrics"] = {...}
SetValidationMetrics ==
  /\ pc = "metrics"
  /\ data' = [data EXCEPT !.validation_metrics = LiteralValidationMetrics]
  /\ pc' = "notes"
  /\ UNCHANGED << files, error, stdout, runs >>

\* data["notes"] = "..."
SetNotes ==
  /\ pc = "notes"
  /\ data' = [data EXCEPT !.notes = LiteralNotes]
  /\ pc' = "write"
  /\ UNCHANGED << files, error, stdout, runs >>

\* with open(<output>, "w") as f: json.dump(data, f, indent=2)
\* Mode "w" creates the file or replaces whatever it held.
WriteOutput ==
  /\ pc = "write"
  /\ files' = [files EXCEPT ![OutputPath] = data]
  /\ pc' = "print"
  /\ UNCHANGED << data, error, stdout, runs >>

\* The five print calls; target_recall is shown with format .1%, that is
\* in tenths of a percent.
PrintSummary ==
  /\ pc = "print"
  /\ stdout' = << "Created omnara_ground_truth_15cases.json with 15 test cases",
                  << "Explicit", data.pattern_distribution.explicit >>,
                  << "Temporal", data.pattern_distribution.temporal >>,
                  << "True Negatives", data.pattern_distribution.true_negative >>,
                  << "Expected Recall", RoundDiv(data.validation_metrics.target_recall, 10) >> >>
  /\ pc' = "done"
  /\ UNCHANGED << files, data, error, runs >>

\* The script is started again: a fresh process over the same file system.
RunAgain ==
  /\ pc \in {"done", "failed"}
  /\ runs < MaxRuns
  /\ runs' = runs + 1
  /\ data' = Unbound
  /\ error' = "none"
  /\ stdout' = <<>>
  /\ pc' = "read"
  /\ UNCHANGED files

Next ==
  \/ ReadInput
  \/ ReadInputFails
  \/ ExtendTestCases
  \/ SetTotalCases
  \/ SetPatternDistribution
  \/ SetValidationMetrics
  \/ SetNotes
  \/ WriteOutput
  \/ PrintSummary
  \/ RunAgain

Spec == Init /\ [][Next]_vars

TypeOK ==
  /\ pc \in {"read", "extend", "total", "dist", "metrics", "notes", "write",
             "print", "done", "failed"}
  /\ error \in {"none", "FileNotFoundError"}
  /\ runs \in 0..MaxRuns
  /\ DOMAIN files = {InputPath, OutputPath}

----------------------------------------------------------------------------
\* Positions of the script.

\* extend has run in the current execution.
Extended == pc \in {"total", "dist", "metrics", "notes", "write", "print", "done"}

\* extend and the whole metadata update have run.
MetadataUpdated == pc \in {"write", "print", "done"}

\* json.dump has run in the current execution.
Written == pc \in {"print", "done"}

\* The cases of the input file, which the current execution started from.
OldCases == files[InputPath].test_cases

\* Indexes of data["test_cases"] that hold a case added by extend.
AddedIndexes == (Len(OldCases) + 1)..Len(data.test_cases)

IssueNumbers(cases) == { cases[i].issue_number : i \in 1..Len(cases) }

Unique(cases) ==
  \A i, j \in 1..Len(cases) : cases[i].issue_number = cases[j].issue_number => i = j

LinksEmpty(c) ==
  /\ c.expected_links.fixed_by_commits = <<>>
  /\ c.expected_links.associated_prs = <<>>
  /\ c.expected_links.associated_issues = <<>>

\* n/d in ten-thousandths, rounded to four decimal places.
Fixed4(n, d) == RoundDiv(n * 10000, d)

\* n/d in ten-thousandths, rounded to two decimal places.
Fixed2(n, d) == RoundDiv(n * 100, d) * 100

TP == data.validation_metrics.expected_true_positives

FP == data.validation_metrics.expected_false_positives

FN == data.validation_metrics.expected_false_negatives

----------------------------------------------------------------------------
\* C1: after extend and the metadata update, the stored total_cases equals
\* the number of entries of test_cases, whatever registry the script
\* started from.
C1_TotalCasesIsLength ==
  MetadataUpdated => data.total_cases = Len(data.test_cases)

\* C2: after the update, every tag found in the linking_patterns of some
\* case has an entry in pattern_distribution, and the entry is the number
\* of cases that carry the tag.
C2_DistributionMatchesCases ==
  MetadataUpdated =>
    \A t \in TagsOf(data.test_cases) :
      /\ t \in DOMAIN data.pattern_distribution
      /\ data.pattern_distribution[t] = CountTag(data.test_cases, t)

\* C3: an append that brings an issue_number the registry already holds
\* fails with DuplicateIssue and leaves test_cases as it was, so a registry
\* without duplicates stays without duplicates.
C3_AppendIsDuplicateSafe ==
  Extended =>
    /\ (IssueNumbers(OldCases) \cap IssueNumbers(new_cases) # {}) =>
         (error = "DuplicateIssue" /\ data.test_cases = OldCases)
    /\ Unique(OldCases) => Unique(data.test_cases)

\* C4: every case added by the script has should_detect False exactly when
\* its three link lists are empty, its expected_confidence is None and its
\* link_quality is "n/a"; this holds of the cases in memory and of the
\* cases written to the output file.
C4_AddedCasesKeepEquivalence ==
  /\ Extended =>
       \A i \in AddedIndexes :
         (data.test_cases[i].should_detect = FALSE) <=>
           ( /\ LinksEmpty(data.test_cases[i])
             /\ data.test_cases[i].expected_confidence = <<>>
             /\ data.test_cases[i].link_quality = "n/a" )
  /\ Written =>
       \A i \in AddedIndexes :
         (files[OutputPath].test_cases[i].should_detect = FALSE) <=>
           ( /\ LinksEmpty(files[OutputPath].test_cases[i])
             /\ files[OutputPath].test_cases[i].expected_confidence = <<>>
             /\ files[OutputPath].test_cases[i].link_quality = "n/a" )

\* An added positive case without any link (issue 164) and an added
\* negative case (issue 206) are both in the written file.
C4_Witness ==
  /\ pc = "done"
  /\ \E i, j \in AddedIndexes :
       /\ files[OutputPath].test_cases[i].should_detect
       /\ LinksEmpty(files[OutputPath].test_cases[i])
       /\ ~ files[OutputPath].test_cases[j].should_detect

\* C5: for every case added by the script, expected_confidence is present
\* exactly when should_detect is True and then lies in [0,1], and
\* link_quality is "n/a" exactly when should_detect is False.
C5_ConfidenceAndQualityFollowLabel ==
  Extended =>
    \A i \in AddedIndexes :
      LET c == data.test_cases[i] IN
        /\ (c.expected_confidence # <<>>) <=> c.should_detect
        /\ c.expected_confidence # <<>> =>
             (0 <= c.expected_confidence[1] /\ c.expected_confidence[1] <= 10000)
        /\ (c.link_quality = "n/a") <=> ~ c.should_detect

\* The added cases are in the list after a non-empty old list: some carry
\* a confidence and one does not.
C5_Witness ==
  /\ Extended
  /\ Len(OldCases) > 0
  /\ \E i, j \in AddedIndexes :
       /\ data.test_cases[i].expected_confidence # <<>>
       /\ data.test_cases[j].expected_confidence = <<>>

\* C6: the written expected_true_positives is the number of cases with
\* should_detect True, and expected_true_negatives the number with
\* should_detect False, whatever registry the script started from.
C6_MetricsCountCases ==
  MetadataUpdated =>
    /\ TP = CountDetect(data.test_cases, TRUE)
    /\ data.validation_metrics.expected_true_negatives
         = CountDetect(data.test_cases, FALSE)

C8_DriftIsNeverWritten ==
  ( /\ MetadataUpdated
    /\ \/ data.total_cases # Len(data.test_cases)
       \/ \E t \in TagsOf(data.test_cases) :
            \/ t \notin DOMAIN data.pattern_distribution
            \/ data.pattern_distribution[t] # CountTag(data.test_cases, t) )
  => ( /\ error \in {"CountMismatch", "DistributionMismatch"}
       /\ ~ Written )

\* C9: after extend, test_cases is the old list, every case unchanged and
\* at its old index, followed by issues 111, 62, 164 and 206 in that
\* order; the later steps keep it so and the written file holds it.
C9_AppendKeepsOldCasesInPlace ==
  /\ Extended =>
       /\ Len(data.test_cases) = Len(OldCases) + 4
       /\ \A i \in 1..Len(OldCases) : data.test_cases[i] = OldCases[i]
       /\ \A k \in 1..4 :
            data.test_cases[Len(OldCases) + k].issue_number
              = << 111, 62, 164, 206 >>[k]
  /\ Written => files[OutputPath].test_cases = data.test_cases

\* The old list has a case whose issue number is above 111 in front of
\* one below it, and the file was written: a sort would have moved them.
C9_Witness ==
  /\ pc = "done"
  /\ Len(OldCases) = 2
  /\ OldCases[1].issue_number > 111
  /\ OldCases[2].issue_number < 111

\* C10: no step changes the input file; once the script has run, a later
\* run leaves the output file with the content it had; and a finished run
\* leaves in the output file the input's cases plus the four new ones,
\* never more.
C10_RunsDoNotAccumulate ==
  /\ [][ /\ files'[InputPath] = files[InputPath]
         /\ runs >= 1 => files'[OutputPath] = files[OutputPath] ]_vars
  /\ [](pc = "done" =>
          Len(files[OutputPath].test_cases) = Len(files[InputPath].test_cases) + 4)

\* The script ran to its end for the third time over a non-empty input.
C10_Witness ==
  /\ pc = "done"
  /\ runs = 2
  /\ Len(files[InputPath].test_cases) > 0

====
